---- MODULE Spec2Model ----
(***************************************************************************)
(* The wasm (WebAudio) host of cpal, src/host/wasm/mod.rs: Host, Devices,  *)
(* Device, Stream and the render closure that build_output_stream_raw      *)
(* registers with window.setInterval.                                      *)
(*                                                                         *)
(* Samples are f32 values that the code only copies; they are modelled by  *)
(* integers (0 is 0.0, 1 is 1.0).  A Vec<f32> / Float32Array is a record   *)
(* [len, base, ex]: slot i holds ex[i] when i \in DOMAIN ex and base       *)
(* otherwise, so that a vector of 32000 slots stays a small value.         *)
(***************************************************************************)
EXTENDS Integers, Sequences, FiniteSets, TLC

\* ------------------------------------------------------------------ bounds
MaxStreams == 2
MaxHandles == 2
MaxCalls == 2
MaxEnums == 2
MaxNext == 2

Streams == 1..MaxStreams
Enums == 1..MaxEnums

\* --------------------------------------------------------------- constants
DEFAULT_SAMPLE_RATE == 48000
num_channels == 2

SampleFormats == {"I16", "U16", "F32"}

\* StreamConfig values a caller may pass to build_output_stream_raw.
Configs ==
  { [channels |-> 2, sample_rate |-> 48000],
    [channels |-> 1, sample_rate |-> 44100] }

NoConfig == [channels |-> 0, sample_rate |-> 0]

\* What the application's data callback does with the buffer it is handed.
Fills == {"ones", "ramp"}

VARIABLES
  window,      \* web_sys::window().is_some()
  ctx,         \* per stream: state of its AudioContext
  handles,     \* per stream: live Stream handles held by the application
  closure,     \* per stream: the leaked render closure and the values fixed in it
  interval,    \* per stream: the setInterval registration is active
  calls,       \* per stream: invocations of data_callback
  started,     \* per stream: playback nodes started
  errors,      \* per stream: invocations of _error_callback
  lastTick,    \* what the most recent run of the render closure did
  ret,         \* the most recent API call and what it returned
  aborted,     \* the process has panicked
  devices,     \* per enumerator: the Devices value and the history of next()
  running,     \* the render closure in progress, if any, and how deeply nested
  borrow       \* per stream: the borrow flag of its RefCell (live Refs; < 0 is a RefMut)

vars ==
  << window, ctx, handles, closure, interval, calls, started, errors,
     lastTick, ret, aborted, devices, running, borrow >>

streamVars ==
  << ctx, handles, closure, interval, calls, started, errors, lastTick, running, borrow >>

\* ------------------------------------------------------------------ vectors
EmptyEx == [i \in {} |-> 0]

\* vec![v; n]
VecOf(v, n) == [len |-> n, base |-> v, ex |-> EmptyEx]

Get(v, i) == IF i \in DOMAIN v.ex THEN v.ex[i] ELSE v.base

\* data_callback(&mut data): the slots the application writes.
RampSlots(n) == {0, 1, 2, 3, n - 2, n - 1}

Fill(f, buf) ==
  CASE f = "ones" -> [len |-> buf.len, base |-> 1, ex |-> EmptyEx]
    [] f = "ramp" ->
         [len |-> buf.len, base |-> buf.base,
          ex |-> [i \in (DOMAIN buf.ex) \cup RampSlots(buf.len) |->
                    IF i \in RampSlots(buf.len)
                      THEN (IF i < 4 THEN i + 1 ELSE 5 + (i % 2))
                      ELSE buf.ex[i]]]

\* for i in 0..buffer_content.len() { buffer_content[i] = temporary_buffer[i * num_channels + channel] }
DeinterleaveInto(buffer_content, temporary_buffer, nch, channel) ==
  LET hit == { k \in DOMAIN temporary_buffer.ex :
                 k % nch = channel /\ k \div nch < buffer_content.len }
  IN [len |-> buffer_content.len,
      base |-> IF buffer_content.len > 0 THEN temporary_buffer.base
                                          ELSE buffer_content.base,
      ex |-> [i \in { k \div nch : k \in hit } |-> temporary_buffer.ex[i * nch + channel]]]

\* AudioContext::create_buffer(channels, length, sample_rate): a zeroed AudioBuffer.
CreateBuffer(nch, length, rate) ==
  [numberOfChannels |-> nch, length |-> length, sampleRate |-> rate,
   data |-> [c \in 0..(nch - 1) |-> VecOf(0, length)]]

\* AudioBuffer::get_channel_data(channel) -> Vec<f32>: a copy of the channel.
GetChannelData(buffer, channel) == buffer.data[channel]

NoBuffer == CreateBuffer(0, 0, 0)

\* AudioContext::create_buffer_source(): a new AudioBufferSourceNode.
CreateBufferSource == [buffer |-> NoBuffer, connected |-> FALSE, starts |-> 0, stops |-> 0]

\* node.set_buffer(Some(&buffer))
SetBuffer(node, buffer) == [node EXCEPT !.buffer = buffer]

\* node.connect_with_audio_node(&audio_ctxt.destination())
ConnectToDestination(node) == [node EXCEPT !.connected = TRUE]

StartTwice(node) == [node EXCEPT !.starts = @ + 2]

\* node.start()
Start(node) == [node EXCEPT !.starts = @ + 1]

NoNode == CreateBufferSource

NoTick ==
  [stream |-> 0, fill |-> "none", initial |-> VecOf(0, 0), temporary_buffer |-> VecOf(0, 0),
   buffer_content |-> [c \in {} |-> VecOf(0, 0)], buffer |-> NoBuffer, node |-> FALSE,
   source |-> NoNode, panic |-> "none"]

\* ------------------------------------------------------------------ results
NoRet ==
  [op |-> "none", stream |-> 0, again |-> FALSE, arg |-> NoConfig, fmt |-> "-",
   val |-> "-", out |-> << >>, platform |-> "-", borrowed |-> 0, avail |-> FALSE]

\* The record of a call.  For play and pause, again says that the call before
\* it was the same operation on the same stream, platform is the outcome of
\* resume()/suspend() and borrowed the Refs that were live when the call borrowed
\* the context; avail is web_sys::window().is_some() at the time of the call.
Returned(op, s, val) ==
  [op |-> op, stream |-> s,
   again |-> (op \in {"play", "pause"} /\ ret.op = op /\ ret.stream = s),
   arg |-> NoConfig, fmt |-> "-", val |-> val, out |-> << >>,
   platform |-> "-", borrowed |-> 0, avail |-> window]

\* ------------------------------------------------------- Rc<RefCell<AudioContext>>
NoClosure == [alive |-> FALSE, num_channels |-> 0, sample_rate |-> 0]

\* Rc::strong_count of a stream's audio_ctxt_ref: the application's handles plus
\* the stream_clone that the render closure owns.
StrongCount(h, c) == h + (IF c.alive THEN 1 ELSE 0)

\* The sum of a per-stream counter over all streams.
RECURSIVE SumUpTo(_, _)
SumUpTo(f, n) == IF n = 0 THEN 0 ELSE f[n] + SumUpTo(f, n - 1)

Total(f) == SumUpTo(f, MaxStreams)

\* No render closure is executing.
Idle == [stream |-> 0, depth |-> 0]

\* --------------------------------------------------------------------- Init
NoDevices == [made |-> FALSE, content |-> FALSE, snapshot |-> FALSE, results |-> << >>]

Init ==
  /\ window \in BOOLEAN
  /\ ctx = [s \in Streams |-> "none"]
  /\ handles = [s \in Streams |-> 0]
  /\ closure = [s \in Streams |-> NoClosure]
  /\ interval = [s \in Streams |-> FALSE]
  /\ calls = [s \in Streams |-> 0]
  /\ started = [s \in Streams |-> 0]
  /\ errors = [s \in Streams |-> 0]
  /\ lastTick = NoTick
  /\ ret = NoRet
  /\ aborted = FALSE
  /\ devices = [e \in Enums |-> NoDevices]
  /\ running = Idle
  /\ borrow = [s \in Streams |-> 0]

\* ------------------------------------------------------------------- Device
SupportedInputConfigsResult == "Err(BackendSpecific(unimplemented!))"

DefaultInputConfigResult == "Err(StreamTypeNotSupported)"

BuildInputStreamUnimplemented == "panic"

BuildInputStreamResult == "Err(StreamConfigNotSupported)"

DefaultInputDeviceResult == "None"

BrowserRange ==
  [channels |-> 2, min_sample_rate |-> 8000,
   max_sample_rate |-> 96000, sample_format |-> "F32"]

\* The one range of supported_output_configs and the default output config.
OutputRange ==
  [channels |-> 2, min_sample_rate |-> DEFAULT_SAMPLE_RATE,
   max_sample_rate |-> DEFAULT_SAMPLE_RATE, sample_format |-> "F32"]

SupportedOutputConfigsResult == << OutputRange >>

DefaultOutputConfigResult ==
  [channels |-> 2, sample_rate |-> DEFAULT_SAMPLE_RATE, sample_format |-> "F32"]

\* supported_input_configs()
SupportedInputConfigs ==
  /\ ~aborted
  /\ ret' = Returned("supported_input_configs", 0, SupportedInputConfigsResult)
  /\ UNCHANGED << window, streamVars, aborted, devices >>

\* default_input_config()
DefaultInputConfig ==
  /\ ~aborted
  /\ ret' = Returned("default_input_config", 0, DefaultInputConfigResult)
  /\ UNCHANGED << window, streamVars, aborted, devices >>

\* default_input_device()
DefaultInputDevice ==
  /\ ~aborted
  /\ ret' = Returned("default_input_device", 0, DefaultInputDeviceResult)
  /\ UNCHANGED << window, streamVars, aborted, devices >>

\* supported_output_configs()
SupportedOutputConfigs ==
  /\ ~aborted
  /\ ret' = [Returned("supported_output_configs", 0, "Ok") EXCEPT
               !.out = SupportedOutputConfigsResult]
  /\ UNCHANGED << window, streamVars, aborted, devices >>

\* default_output_config()
DefaultOutputConfig ==
  /\ ~aborted
  /\ ret' = [Returned("default_output_config", 0, "Ok") EXCEPT
               !.out = << DefaultOutputConfigResult >>]
  /\ UNCHANGED << window, streamVars, aborted, devices >>


\* build_input_stream_raw(_config, _sample_format, _data_callback, _error_callback)
BuildInputStream ==
  /\ ~aborted
  /\ \E config \in Configs, sample_format \in SampleFormats :
       ret' = Returned("build_input_stream", 0, BuildInputStreamResult)
  /\ UNCHANGED << window, streamVars, aborted, devices >>

RenderClosureFromConfig(config) ==
  [alive |-> TRUE, num_channels |-> config.channels, sample_rate |-> config.sample_rate]

\* The values the render closure is built with: _config is unused, the channel
\* count and the sample rate are fixed in the closure.
RenderClosure(config) ==
  [alive |-> TRUE, num_channels |-> num_channels, sample_rate |-> DEFAULT_SAMPLE_RATE]

\* AudioContext::new(): the state a new context starts in.
NewAudioContext == "running"

SetIntervalDeferred == FALSE

\* set_interval_with_callback_and_timeout_and_arguments_0(callback, 10)
SetInterval == TRUE

\* build_output_stream_raw(_config, sample_format, data_callback, _error_callback)
BuildOutputStream ==
  /\ ~aborted
  /\ \E s \in Streams, config \in Configs, sample_format \in SampleFormats :
       /\ ctx[s] = "none"
       /\ \A t \in Streams : t < s => ctx[t] # "none"
       /\ Total(handles) < MaxHandles
       /\ IF sample_format # "F32" \/ ~window
            THEN \* assert_eq! fails, or AudioContext::new().unwrap() panics
                 /\ aborted' = TRUE
                 /\ ret' = [Returned("build_output_stream", 0, "panic") EXCEPT
                              !.arg = config, !.fmt = sample_format]
                 /\ UNCHANGED << ctx, handles, closure, interval >>
            ELSE /\ ctx' = [ctx EXCEPT ![s] = NewAudioContext]
                 /\ handles' = [handles EXCEPT ![s] = 1]
                 /\ closure' = [closure EXCEPT ![s] = RenderClosure(config)]
                 /\ interval' = [interval EXCEPT ![s] = SetInterval]
                 /\ ret' = [Returned("build_output_stream", s, "Ok(stream)") EXCEPT
                              !.arg = config, !.fmt = sample_format]
                 /\ UNCHANGED aborted
  /\ UNCHANGED << window, calls, started, errors, lastTick, devices, running, borrow >>

\* ------------------------------------------------------------------- Stream
ResumeToggles(state) == IF state = "running" THEN "suspended" ELSE "running"

\* AudioContext::resume() and AudioContext::suspend()
Resume(state) == "running"

Suspend(state) == "suspended"

\* What resume() and suspend() may return to the caller that discards it.
PlatformOutcomes == {"Ok", "Err"}

PlayResultPropagated(outcome) == outcome

\* Ok(()) of Stream::play, whatever resume() returned.
PlayResult(outcome) == "Ok"

\* Ok(()) of Stream::pause, whatever suspend() returned.
PauseResult(outcome) == "Ok"

BorrowMutOk(flag) == flag = 0

\* RefCell::borrow(): succeeds unless the cell is mutably borrowed.
BorrowOk(flag) == flag >= 0

AllContexts(s) == Streams

\* The contexts a handle of stream s designates: the one AudioContext that
\* build_output_stream_raw made for it.
ContextOf(s) == {s}

\* Stream::play: the Result of resume() is discarded.
Play(s) ==
  /\ ~aborted
  /\ handles[s] > 0
  /\ \E outcome \in PlatformOutcomes :
       IF BorrowOk(borrow[s])
         THEN /\ ctx' = [t \in Streams |->
                          IF t \in ContextOf(s) /\ ctx[t] # "none"
                            THEN Resume(ctx[t]) ELSE ctx[t]]
              /\ ret' = [Returned("play", s, PlayResult(outcome)) EXCEPT
                           !.platform = outcome, !.borrowed = borrow[s]]
              /\ UNCHANGED aborted
         ELSE \* borrow() panics: already mutably borrowed
              /\ ret' = Returned("play", s, "BorrowError")
              /\ aborted' = TRUE
              /\ UNCHANGED ctx
  /\ UNCHANGED << window, handles, closure, interval, calls, started, errors,
                  lastTick, devices, running, borrow >>

\* Stream::pause: the Result of suspend() is discarded.
Pause(s) ==
  /\ ~aborted
  /\ handles[s] > 0
  /\ \E outcome \in PlatformOutcomes :
       IF BorrowOk(borrow[s])
         THEN /\ ctx' = [t \in Streams |->
                          IF t \in ContextOf(s) /\ ctx[t] # "none"
                            THEN Suspend(ctx[t]) ELSE ctx[t]]
              /\ ret' = [Returned("pause", s, PauseResult(outcome)) EXCEPT
                           !.platform = outcome, !.borrowed = borrow[s]]
              /\ UNCHANGED aborted
         ELSE \* borrow() panics: already mutably borrowed
              /\ ret' = Returned("pause", s, "BorrowError")
              /\ aborted' = TRUE
              /\ UNCHANGED ctx
  /\ UNCHANGED << window, handles, closure, interval, calls, started, errors,
                  lastTick, devices, running, borrow >>

\* #[derive(Clone)] on Stream: Rc::clone, one more handle on the same context.
Clone(s) ==
  /\ ~aborted
  /\ handles[s] > 0
  /\ Total(handles) < MaxHandles
  /\ handles' = [handles EXCEPT ![s] = @ + 1]
  /\ UNCHANGED << window, ctx, closure, interval, calls, started, errors,
                  lastTick, ret, aborted, devices, running, borrow >>

\* What dropping one handle leaves of the context: Stream has no Drop impl, so
\* only the Rc is released, and the context goes with the last strong reference.
AfterDrop(state, h, c) == IF StrongCount(h - 1, c) = 0 THEN "released" ELSE state

\* The interval after a handle is dropped: nothing calls clearInterval.
IntervalAfterDrop(registered, h) == registered

DropStream(s) ==
  /\ ~aborted
  /\ handles[s] > 0
  /\ handles' = [handles EXCEPT ![s] = @ - 1]
  /\ ctx' = [ctx EXCEPT ![s] = AfterDrop(ctx[s], handles[s], closure[s])]
  /\ interval' = [interval EXCEPT ![s] = IntervalAfterDrop(interval[s], handles[s])]
  /\ UNCHANGED << window, closure, calls, started, errors, lastTick, ret, aborted, devices,
                  running, borrow >>

\* ----------------------------------------------------------- render closure
TemporaryBufferLenOfPeriod == (DEFAULT_SAMPLE_RATE * 10) \div 1000

\* temporary_buffer.len(): DEFAULT_SAMPLE_RATE as usize * 2 / 3
TemporaryBufferLen == (DEFAULT_SAMPLE_RATE * 2) \div 3

ScratchReused(previous, n) == IF previous.len = n THEN previous ELSE VecOf(0, n)

\* let mut temporary_buffer: Vec<f32> = vec![0.0; n], allocated on every run;
\* previous is the scratch vector of the run before.
Scratch(previous, n) == VecOf(0, n)

\* One run of the closure with nothing failing, for the data callback behaviour
\* f: the scratch vector before and after data_callback, the AudioBuffer made by
\* create_buffer, the Vec that get_channel_data returned for each channel after
\* the copy loop wrote into it, and the node made, connected and started.
Render(s, f) ==
  LET nch == closure[s].num_channels
      initial == Scratch(lastTick.temporary_buffer, TemporaryBufferLen)
      temporary_buffer == Fill(f, initial)
      buf_len == temporary_buffer.len
      buffer == CreateBuffer(nch, buf_len \div nch, closure[s].sample_rate)
      buffer_content ==
        [channel \in 0..(nch - 1) |->
           DeinterleaveInto(GetChannelData(buffer, channel), temporary_buffer, nch, channel)]
      node == Start(ConnectToDestination(SetBuffer(CreateBufferSource, buffer)))
  IN [stream |-> s, fill |-> f, initial |-> initial,
      temporary_buffer |-> temporary_buffer, buffer_content |-> buffer_content,
      buffer |-> buffer, node |-> TRUE, source |-> node, panic |-> "none"]

\* What a run of the closure leaves behind, r being the run with nothing
\* failing: platform_ok is whether the platform calls that the closure unwraps
\* succeed.
Rendered(r, nch, platform_ok) ==
  IF r.temporary_buffer.len % nch = 0 /\ platform_ok
    THEN r
    ELSE \* debug_assert_eq! or an unwrap() panics after data_callback ran
         [r EXCEPT !.buffer_content = NoTick.buffer_content, !.buffer = NoBuffer,
                   !.node = FALSE, !.source = NoNode,
                   !.panic = IF r.temporary_buffer.len % nch = 0
                               THEN "unwrap" ELSE "debug_assert_eq"]

InvokedTwice(n) == n + 2

\* data_callback(&mut data): the one call of the data callback in the closure.
Invoked(n) == n + 1

ErrorCallbackInvoked(n) == n + 1

\* _error_callback after a panic in the closure: it is never called.
ErrorsAfterPanic(n) == n

\* The interval fires and runs the closure to its end.
Tick(s) ==
  /\ ~aborted
  /\ interval[s]
  /\ closure[s].alive
  /\ Total(calls) < MaxCalls
  /\ \E f \in Fills, platform_ok \in BOOLEAN :
       \E r \in {Rendered(Render(s, f), closure[s].num_channels, platform_ok)} :
          /\ calls' = [calls EXCEPT ![s] = Invoked(@)]
          /\ lastTick' = r
          /\ started' = [started EXCEPT ![s] = @ + r.source.starts]
          /\ aborted' = (r.panic # "none")
          /\ errors' = [errors EXCEPT ![s] =
                          IF r.panic # "none" THEN ErrorsAfterPanic(@) ELSE @]
  /\ UNCHANGED << window, ctx, handles, closure, interval, ret, devices,
                  running, borrow >>

\* The interval callback is a task of the window's event loop: it is run only
\* when no other run of a render closure is executing.
TimerMayFire == running.depth = 0

\* The same run in two steps.  TickBegin: the interval fires, the closure
\* borrows the context, allocates the scratch vector and calls data_callback.
TickBegin(s) ==
  /\ ~aborted
  /\ TimerMayFire
  /\ interval[s]
  /\ closure[s].alive
  /\ Total(calls) < MaxCalls
  /\ IF BorrowOk(borrow[s])
       THEN /\ borrow' = [borrow EXCEPT ![s] = @ + 1]
            /\ running' = [stream |-> s, depth |-> running.depth + 1]
            /\ calls' = [calls EXCEPT ![s] = Invoked(@)]
            /\ UNCHANGED << aborted, lastTick >>
       ELSE \* borrow() panics: already mutably borrowed
            /\ lastTick' = [NoTick EXCEPT !.stream = s, !.panic = "BorrowError"]
            /\ aborted' = TRUE
            /\ UNCHANGED << borrow, running, calls >>
  /\ UNCHANGED << window, ctx, handles, closure, interval, started, errors, ret, devices >>

\* TickEnd: data_callback returns, the closure repacks the samples, starts the
\* node, drops its Ref and returns.
TickEnd ==
  /\ ~aborted
  /\ running.depth > 0
  /\ \E s \in {running.stream}, f \in Fills, platform_ok \in BOOLEAN :
       \E r \in {Rendered(Render(s, f), closure[s].num_channels, platform_ok)} :
          /\ lastTick' = r
          /\ started' = [started EXCEPT ![s] = @ + r.source.starts]
          /\ aborted' = (r.panic # "none")
          /\ errors' = [errors EXCEPT ![s] =
                          IF r.panic # "none" THEN ErrorsAfterPanic(@) ELSE @]
          /\ IF r.panic = "none"
               THEN /\ borrow' = [borrow EXCEPT ![s] = @ - 1]
                    /\ running' = IF running.depth = 1 THEN Idle
                                   ELSE [running EXCEPT !.depth = @ - 1]
               ELSE UNCHANGED << borrow, running >>
  /\ UNCHANGED << window, ctx, handles, closure, interval, calls, ret, devices >>

\* --------------------------------------------------------------------- Host
\* is_webaudio_available()
is_webaudio_available == window

\* The platform comes or goes (the global Window appears or disappears).
ToggleWindow ==
  /\ ~aborted
  /\ window' = ~window
  /\ UNCHANGED << streamVars, ret, aborted, devices >>

\* default_output_device()
DefaultOutputDevice ==
  /\ ~aborted
  /\ ret' = Returned("default_output_device", 0,
                     IF is_webaudio_available THEN "Some(Device)" ELSE "None")
  /\ UNCHANGED << window, streamVars, aborted, devices >>

\* Host::is_available()
IsAvailable ==
  /\ ~aborted
  /\ ret' = Returned("is_available", 0, "true")
  /\ UNCHANGED << window, streamVars, aborted, devices >>

DevicesAlwaysOne == TRUE

\* Devices::default(): Devices(is_webaudio_available())
DevicesDefault == is_webaudio_available

\* Host::devices() -> Devices::new() -> Ok(Self::default())
HostDevices ==
  /\ ~aborted
  /\ \E e \in Enums :
       /\ ~devices[e].made
       /\ \A d \in Enums : d < e => devices[d].made
       /\ devices' = [devices EXCEPT ![e] =
                        [made |-> TRUE, content |-> DevicesDefault,
                         snapshot |-> is_webaudio_available, results |-> << >>]]
       /\ ret' = Returned("devices", e, "Ok(Devices)")
  /\ UNCHANGED << window, streamVars, aborted >>

\* Iterator::next for Devices: the item returned and the content left behind.
NextItem(content) == IF content THEN "Some(Device)" ELSE "None"

NextContentKept(content) == content

NextContent(content) == FALSE

DevicesNext(e) ==
  /\ ~aborted
  /\ devices[e].made
  /\ Len(devices[e].results) < MaxNext
  /\ devices' = [devices EXCEPT ![e].content = NextContent(@),
                                ![e].results =
                                   Append(@, [item |-> NextItem(devices[e].content),
                                              available |-> is_webaudio_available])]
  /\ ret' = Returned("next", e, NextItem(devices[e].content))
  /\ UNCHANGED << window, streamVars, aborted >>

\* --------------------------------------------------------------- behaviours
\* Device and Stream: the DeviceTrait and StreamTrait operations and the timer.
Next ==
  \/ SupportedInputConfigs
  \/ DefaultInputConfig
  \/ SupportedOutputConfigs
  \/ DefaultOutputConfig
  \/ DefaultInputDevice
  \/ BuildInputStream
  \/ BuildOutputStream
  \/ \E s \in Streams : Play(s)
  \/ \E s \in Streams : Pause(s)
  \/ \E s \in Streams : Clone(s)
  \/ \E s \in Streams : DropStream(s)
  \/ \E s \in Streams : Tick(s)

Spec == Init /\ [][Next]_vars

\* Host and Devices: the HostTrait operations and the enumerators they return.
NextHost ==
  \/ ToggleWindow
  \/ IsAvailable
  \/ DefaultInputDevice
  \/ DefaultOutputDevice
  \/ HostDevices
  \/ \E e \in Enums : DevicesNext(e)

SpecHost == Init /\ [][NextHost]_vars

\* The render closure step by step, with the calls an application can make
\* between the steps and while its data callback is running.  A clone's play and
\* pause are the original's, so every stream has its one handle here.
NextRender ==
  \/ BuildOutputStream
  \/ \E s \in Streams : Play(s)
  \/ \E s \in Streams : Pause(s)
  \/ \E s \in Streams : DropStream(s)
  \/ \E s \in Streams : TickBegin(s)
  \/ TickEnd

SpecRender == Init /\ [][NextRender]_vars

\* Streams alone: build_output_stream, the handles of the streams built and
\* their timers, without the queries of the Device.
NextStream ==
  \/ BuildOutputStream
  \/ \E s \in Streams : Play(s)
  \/ \E s \in Streams : Pause(s)
  \/ \E s \in Streams : Clone(s)
  \/ \E s \in Streams : DropStream(s)
  \/ \E s \in Streams : Tick(s)

SpecStream == Init /\ [][NextStream]_vars

\* =================================================================== claims
Built(s) == ctx[s] # "none"

\* C1: after the only Stream handle of a stream is dropped its timer is
\* deregistered, so no later step invokes the data callback of that stream:
\* its call counter stays constant.
C1_NoFillAfterDrop ==
  [][\A s \in Streams : (Built(s) /\ handles[s] = 0) => calls'[s] = calls[s]]_vars

\* C2: build_output_stream with a sample format other than F32 returns a typed
\* BuildStreamError and does not abort; no context and no timer come of it.
C2_NonF32TypedError ==
  (ret.op = "build_output_stream" /\ ret.fmt # "F32") =>
    /\ ~aborted
    /\ ret.val = "Err(BuildStreamError)"
    /\ ret.stream = 0

\* C3: on every tick the native buffer bound to the tick's playback node holds
\* the deinterleaved scratch buffer: channel[c][f] = v[f*2 + c] for c in {0,1}
\* and every frame f.
C3_DeinterleaveIntoNative ==
  lastTick.node =>
    \A c \in 0..1 : \A f \in 0..(lastTick.buffer.length - 1) :
      Get(lastTick.buffer.data[c], f) = Get(lastTick.temporary_buffer, f * 2 + c)

\* C4: while a stream's context is suspended no tick invokes the data callback
\* and no playback node is created.
C4_NoRenderWhileSuspended ==
  [][\A s \in Streams :
       ctx[s] = "suspended" => (calls'[s] = calls[s] /\ started'[s] = started[s])]_vars

\* C5: the handles of a stream share one context, and when the last handle is
\* dropped the context is released.
C5_ContextReleasedWithLastHandle ==
  \A s \in Streams : (Built(s) /\ handles[s] = 0) => ctx[s] = "released"

\* C6: the first next() of a Devices enumerator yields a Device iff the
\* availability snapshot taken at construction was true, and every later next()
\* yields nothing, whatever the availability is at the time of the call.
C6_EnumeratorYieldsOnce ==
  \A e \in Enums :
    devices[e].made =>
      \A i \in DOMAIN devices[e].results :
        devices[e].results[i].item =
          (IF i = 1 /\ devices[e].snapshot THEN "Some(Device)" ELSE "None")

C6_Witness ==
  \E e \in Enums :
    /\ devices[e].made
    /\ Len(devices[e].results) = 2
    /\ \E i \in 1..2 :
         /\ devices[e].results[i].available # devices[e].snapshot
         /\ devices[e].results[i].item # NextItem(devices[e].results[i].available)

\* C7: play() and pause() always return success and leave the context running,
\* respectively suspended; a play() right after a play() on the same stream, or a
\* pause() right after a pause(), changes nothing of the stream's state.
C7_LogicalState ==
  /\ ret.op = "play" => (ret.val = "Ok" /\ ctx[ret.stream] = "running")
  /\ ret.op = "pause" => (ret.val = "Ok" /\ ctx[ret.stream] = "suspended")

C7_PlayPauseIdempotent ==
  /\ []C7_LogicalState
  /\ [][\A s \in Streams :
          (ret'.again /\ (Play(s) \/ Pause(s))) => UNCHANGED streamVars]_vars

C7_Witness ==
  /\ ret.op = "play"
  /\ ret.again
  /\ ctx[ret.stream] = "running"
  /\ calls[ret.stream] > 0

\* C8: a successful build_output_stream leaves the stream running with its
\* timer registered: before any play(), a tick can fire, and every tick that
\* can fire invokes the data callback once.
C8_RendersWithoutPlay ==
  (ret.op = "build_output_stream" /\ ret.val = "Ok(stream)") =>
    /\ ctx[ret.stream] = "running"
    /\ interval[ret.stream]
    /\ (~aborted /\ Total(calls) < MaxCalls) =>
         /\ ENABLED Tick(ret.stream)
         /\ ~ENABLED (Tick(ret.stream) /\ calls'[ret.stream] # calls[ret.stream] + 1)

C8_Witness ==
  /\ ret.op = "build_output_stream"
  /\ ret.val = "Ok(stream)"
  /\ calls[ret.stream] = 1
  /\ lastTick.stream = ret.stream
  /\ ~aborted

\* C9: input is unsupported in every state: default_input_device() is none,
\* supported_input_configs() fails with the backend-specific "unimplemented"
\* error, default_input_config() fails with StreamTypeNotSupported, and
\* build_input_stream fails with StreamConfigNotSupported and creates no
\* context and registers no timer.
C9_InputResults ==
  /\ ret.op = "default_input_device" => ret.val = "None"
  /\ ret.op = "supported_input_configs" => ret.val = "Err(BackendSpecific(unimplemented!))"
  /\ ret.op = "default_input_config" => ret.val = "Err(StreamTypeNotSupported)"
  /\ ret.op = "build_input_stream" => ret.val = "Err(StreamConfigNotSupported)"

C9_InputUnsupported ==
  /\ []C9_InputResults
  /\ [][(ret'.op = "build_input_stream" /\ ret' # ret) =>
          /\ ctx' = ctx /\ interval' = interval /\ closure' = closure
          /\ handles' = handles /\ aborted' = aborted]_vars

C9_Witness ==
  /\ ret.op = "build_input_stream"
  /\ ret.val = "Err(StreamConfigNotSupported)"
  /\ \E s \in Streams : ctx[s] = "running" /\ calls[s] > 0
  /\ \E s \in Streams : ctx[s] = "none"

\* C10: every buffer a stream renders has exactly 2 channels at 48000 Hz,
\* whatever StreamConfig was passed to build_output_stream.
C10_FixedChannelsAndRate ==
  /\ \A s \in Streams :
       closure[s].alive => (closure[s].num_channels = 2 /\ closure[s].sample_rate = 48000)
  /\ lastTick.node =>
       /\ lastTick.buffer.numberOfChannels = 2
       /\ DOMAIN lastTick.buffer.data = {0, 1}
       /\ lastTick.buffer.sampleRate = 48000

C10_Witness ==
  /\ ret.op = "build_output_stream"
  /\ ret.val = "Ok(stream)"
  /\ ret.arg = [channels |-> 1, sample_rate |-> 44100]
  /\ lastTick.stream = ret.stream
  /\ lastTick.node
  /\ lastTick.buffer.numberOfChannels = 2


\* C11: in every run of the render closure the data callback is invoked exactly
\* once, and a run ends before the next one begins: at most one run is in
\* progress, and a stream's data callback has been invoked once per finished run
\* plus once for the run in progress, whatever play, pause, drop or build calls
\* are made in between.
C11_OneFillPerTickInTurn ==
  /\ running.depth <= 1
  /\ ~aborted =>
       \A s \in Streams :
         calls[s] = started[s]
                    + (IF running.depth > 0 /\ running.stream = s THEN 1 ELSE 0)

C11_Witness ==
  /\ ~aborted
  /\ running.depth = 1
  /\ ret.op \in {"play", "pause"}
  /\ calls[running.stream] = 2
  /\ started[running.stream] = 1

\* C15: no access to the RefCell holding the audio context conflicts: every
\* borrow by the render closure, play and pause succeeds, also a play or pause
\* made while a run of the closure holds its Ref, and the cell is never mutably
\* borrowed.
C15_NoBorrowConflict ==
  /\ ret.val # "BorrowError"
  /\ lastTick.panic # "BorrowError"
  /\ \A s \in Streams : borrow[s] \in 0..1

C15_Witness ==
  /\ ~aborted
  /\ ret.op \in {"play", "pause"}
  /\ ret.val = "Ok"
  /\ ret.borrowed = 1
  /\ running.depth = 1
  /\ running.stream = ret.stream

\* C12: supported_output_configs always succeeds with exactly one range, 2
\* channels, 48000 Hz as minimum and maximum rate, F32; default_output_config
\* always succeeds with 2 channels, 48000 Hz, F32; whatever streams were built,
\* rendered, paused or dropped before the call.
C12_OutputConfigsFixed ==
  /\ ret.op = "supported_output_configs" =>
       /\ ret.val = "Ok"
       /\ Len(ret.out) = 1
       /\ ret.out[1] = [channels |-> 2, min_sample_rate |-> 48000,
                        max_sample_rate |-> 48000, sample_format |-> "F32"]
  /\ ret.op = "default_output_config" =>
       /\ ret.val = "Ok"
       /\ ret.out = << [channels |-> 2, sample_rate |-> 48000, sample_format |-> "F32"] >>

C12_Witness ==
  /\ ret.op = "supported_output_configs"
  /\ \E s \in Streams : calls[s] > 0 /\ ctx[s] = "suspended"
  /\ \E s \in Streams : Built(s) /\ handles[s] = 0

C14_ErrorCallbackNeverInvoked == \A s \in Streams : errors[s] = 0

C14_Witness ==
  /\ aborted
  /\ lastTick.stream # 0
  /\ lastTick.panic = "unwrap"
  /\ calls[lastTick.stream] = 2
  /\ errors[lastTick.stream] = 0

\* C16: in every run of the render closure the scratch vector handed to the data
\* callback has 48000 * 2 / 3 = 32000 slots, a multiple of the 2 channels, so the
\* divisibility assertion does not fail, and the AudioBuffer made in the run has
\* 2 channels of 32000 / 2 = 16000 frames; the same in every run of every stream.
C16_ScratchAndBufferSizes ==
  /\ TemporaryBufferLen = 32000
  /\ lastTick.stream # 0 =>
       /\ lastTick.initial.len = 32000
       /\ lastTick.temporary_buffer.len = 32000
       /\ lastTick.temporary_buffer.len % 2 = 0
       /\ lastTick.panic # "debug_assert_eq"
       /\ lastTick.node =>
            /\ lastTick.buffer.numberOfChannels = 2
            /\ lastTick.buffer.length = 16000
            /\ \A channel \in DOMAIN lastTick.buffer_content :
                 lastTick.buffer_content[channel].len = 16000

C16_Witness ==
  /\ lastTick.node
  /\ lastTick.stream = 2
  /\ calls[1] > 0
  /\ lastTick.buffer.length = 16000
  /\ DOMAIN lastTick.buffer_content = {0, 1}

\* C17: every run of the render closure that completes makes one AudioBuffer and
\* one AudioBufferSourceNode, gives the node that buffer, connects it and starts
\* it once; the node is never stopped and no run starts a node a second time, so
\* a stream with n completed runs has started n nodes.
C17_OneNodeStartedPerTick ==
  /\ lastTick.node =>
       lastTick.source = [buffer |-> lastTick.buffer, connected |-> TRUE,
                          starts |-> 1, stops |-> 0]
  /\ \A s \in Streams :
       started[s] = calls[s]
                    - (IF aborted /\ lastTick.stream = s /\ ~lastTick.node THEN 1 ELSE 0)

C17_Witness ==
  /\ ~aborted
  /\ lastTick.node
  /\ lastTick.source.starts = 1
  /\ calls[lastTick.stream] = 2
  /\ started[lastTick.stream] = 2

\* C18: the scratch vector carries nothing from one run of the render closure to
\* the next: when the data callback is invoked every slot is 0.0, and a slot the
\* data callback does not write is 0.0 in the data repacked in that run.
C18_ScratchZeroedEachTick ==
  lastTick.stream # 0 =>
    /\ lastTick.initial.base = 0
    /\ \A i \in DOMAIN lastTick.initial.ex : lastTick.initial.ex[i] = 0
    /\ lastTick.fill = "ramp" =>
         /\ lastTick.temporary_buffer.base = 0
         /\ \A i \in DOMAIN lastTick.temporary_buffer.ex :
              i \notin RampSlots(lastTick.temporary_buffer.len) =>
                lastTick.temporary_buffer.ex[i] = 0

C18_Witness ==
  /\ lastTick.fill = "ramp"
  /\ calls[lastTick.stream] = 2
  /\ Get(lastTick.temporary_buffer, 4) = 0
  /\ Get(lastTick.temporary_buffer, 3) = 4
  /\ lastTick.node
  /\ Get(lastTick.buffer_content[0], 2) = 0

\* C19: play and pause return Ok whatever resume() or suspend() returned, and
\* change nothing but the running or suspended state of the context of the
\* stream they are called on: no timer is registered or cancelled, no callback
\* is invoked, no buffer or node is made; also when the call is made while a
\* run of the render closure is in progress.
C19_PlayPauseOnlyContextState ==
  /\ ret.op \in {"play", "pause"} => ret.val = "Ok"
  /\ \A s \in Streams :
       ~ENABLED
         /\ Play(s) \/ Pause(s)
         /\ ~ /\ ret'.val = "Ok"
              /\ ret'.platform \in PlatformOutcomes
              /\ ctx'[s] \in {"running", "suspended"}
              /\ \A t \in Streams \ {s} : ctx'[t] = ctx[t]
              /\ UNCHANGED << window, handles, closure, interval, calls, started,
                              errors, lastTick, aborted, devices, running, borrow >>

C19_Witness ==
  /\ ret.op = "pause"
  /\ ret.platform = "Err"
  /\ ret.val = "Ok"
  /\ ctx[ret.stream] = "suspended"
  /\ interval[ret.stream]
  /\ calls[ret.stream] > 0
  /\ running.stream = ret.stream
  /\ running.depth = 1
  /\ ~aborted

\* C20: every successful build_output_stream makes a context and a timer of its
\* own, a clone makes neither, and streams are independent: play, pause or drop
\* on one stream leaves the context state, the timer, the handles, the closure
\* and the data callback invocations of every other stream as they were.
C20_StreamsIndependent ==
  /\ \A s \in Streams :
       ~ENABLED
         /\ Play(s) \/ Pause(s) \/ DropStream(s)
         /\ \E t \in Streams \ {s} :
              \/ ctx'[t] # ctx[t]
              \/ interval'[t] # interval[t]
              \/ handles'[t] # handles[t]
              \/ closure'[t] # closure[t]
              \/ calls'[t] # calls[t]
  /\ \A s \in Streams :
       ~ENABLED
         /\ Clone(s)
         /\ ~ /\ ctx' = ctx
              /\ interval' = interval
              /\ closure' = closure
              /\ handles' = [handles EXCEPT ![s] = @ + 1]
  /\ ~ENABLED
       /\ BuildOutputStream
       /\ ~aborted'
       /\ ~ \E s \in Streams :
              /\ ctx[s] = "none" /\ ctx'[s] = "running"
              /\ ~interval[s] /\ interval'[s]
              /\ handles[s] = 0 /\ handles'[s] = 1
              /\ ret'.stream = s
              /\ \A t \in Streams \ {s} :
                   /\ ctx'[t] = ctx[t]
                   /\ interval'[t] = interval[t]
                   /\ handles'[t] = handles[t]
                   /\ closure'[t] = closure[t]

C20_Witness ==
  /\ ret.op = "pause"
  /\ ret.stream = 1
  /\ ctx[1] = "suspended"
  /\ ctx[2] = "running"
  /\ handles[1] = 1
  /\ handles[2] = 1
  /\ interval[1]
  /\ interval[2]
  /\ calls[2] > 0
  /\ ~aborted

====
